---------------------------- MODULE Spec2Model ----------------------------
(***************************************************************************)
(* Model of the STDP spiking network of SNN2_AER/python/stdp_network.py:   *)
(* LIF_Neuron, STDP_Synapse and STDP_Network (4 -> 8 -> 3 by default).     *)
(*                                                                         *)
(* Reals are fixed-point integers: a value x of the program is the integer *)
(* x * Unit (weights, traces, potentials, currents, thresholds).  Spike    *)
(* times are whole milliseconds, durations whole half milliseconds.  A     *)
(* product or quotient is rounded to the nearest multiple of 1/Unit.       *)
(***************************************************************************)
EXTENDS Integers, Sequences, FiniteSets, TLC

\* Unit = Half * Half = 10^8: eight decimals
Half == 100 * 100
Unit == Half * Half

\* ------------------------------------------------------------ bounds
\* Layer sizes of the network built by the bounded specifications.
NInput == 2
NHidden == 2
NOutput == 2
\* An input spike train fires never, or every p-th step for p in 1..TrainPeriod.
TrainPeriod == 1
\* Durations (ms) of the presentations.
LongDuration == 120
ShortDuration == 2
\* Presentations in one behaviour of SpecSeq.
SeqPresentations == 2
\* Calls on the synapse in one behaviour of SpecSynapse.
MaxSynapseCalls == 5
\* Calls of record_weights in one behaviour of Spec.
MaxRecords == 1

\* ------------------------------------------------- program constants
DT == 1
TauM == 20
TauS == 5
VRest == 0
VReset == 0
ThresholdInput == 80000000
ThresholdHidden == 90000000
ThresholdOutput == 80000000
WMin == 0
WMax == 100000000
TauPlus == 20
TauMinus == 20
APlusDefault == 1000000
AMinusDefault == 1000000
APlusIH == 1500000
AMinusIH == 1500000
APlusHO == 2000000
AMinusHO == 2000000
LateralInhibition == 10000000
TeachBoost == 50000000
TeachSuppress == 40000000
RewardHidden == 1000000
RewardOutput == 500000
PunishHidden == 1500000
PunishOutput == 2000000
\* np.exp(-1/20) and np.exp(-1/5), in 1/Unit
ExpTau20 == 95122942
ExpTau5 == 81873075
\* last_spike_time = -np.inf
NegInf == -1
\* the network built by main(): STDP_Network(n_input=4, n_hidden=8, n_output=3)
DefaultNInput == 4
DefaultNHidden == 8
DefaultNOutput == 3
DefaultDuration == 200
\* a duration is a whole number of half milliseconds: d ms is d * PerMs
PerMs == 2

\* ------------------------------------------------------- arithmetic
Abs(x) == IF x < 0 THEN -x ELSE x

\* a / b for b > 0, rounded as a float operation rounds: to the nearest
\* multiple of 1/Unit, a half to the even one
RDiv(a, b) ==
    LET q == Abs(a) \div b
        r == Abs(a) % b
        m == IF 2 * r < b THEN q
             ELSE IF 2 * r > b THEN q + 1
             ELSE IF q % 2 = 0 THEN q ELSE q + 1
    IN IF a >= 0 THEN m ELSE -m

\* x * f / Unit for 0 <= x and a factor 0 <= f <= Unit given in 1/Unit,
\* rounded to the nearest integer; the product is formed from the halves of
\* x and f so that no intermediate value leaves the 32-bit integers
MulPos(x, f) ==
    LET xh == x \div Half
        xl == x % Half
        fh == f \div Half
        fl == f % Half
        mid == xh * fl + xl * fh
        low == (mid % Half) * Half + xl * fl
    IN xh * fh + mid \div Half + RDiv(low, Unit)

\* x * f for a factor f given in 1/Unit, rounded to the nearest multiple of
\* 1/Unit
Mul(x, f) == IF x >= 0 THEN MulPos(x, f) ELSE -MulPos(-x, f)

\* np.exp(-dt / tau) for the time constants the program uses
ExpNeg(dt, tau) ==
    CASE dt = 1 /\ tau = 20 -> ExpTau20
      [] dt = 1 /\ tau = 5 -> ExpTau5

RECURSIVE ExpNegTimes(_, _)
\* np.exp(-k / tau) for a whole number k of milliseconds
ExpNegTimes(k, tau) ==
    IF k = 0 THEN Unit ELSE Mul(ExpNegTimes(k - 1, tau), ExpNeg(1, tau))

ClipNoUpper(x, lo, hi) == IF x < lo THEN lo ELSE x

\* np.clip(x, lo, hi)
Clip(x, lo, hi) == IF x < lo THEN lo ELSE IF x > hi THEN hi ELSE x

\* f itself, as a table of its values: each f[x] is computed once
Tab(f) == f @@ <<>>

Last(seq) == seq[Len(seq)]

RECURSIVE SumTo(_, _)
\* f[0] + ... + f[n-1]
SumTo(f, n) == IF n = 0 THEN 0 ELSE SumTo(f, n - 1) + f[n - 1]

\* ------------------------------------------------------- LIF_Neuron
\* LIF_Neuron.__init__
NewNeuron(id, threshold) ==
    [id |-> id, threshold |-> threshold, tau_m |-> TauM, tau_s |-> TauS,
     v_rest |-> VRest, v_reset |-> VReset,
     v |-> VRest, i_syn |-> 0, spike_times |-> <<>>,
     last_spike_time |-> NegInf, v_history |-> <<>>, spike_history |-> <<>>]

NeuronResetKeepsCurrent(n) ==
    [n EXCEPT !.v = n.v_rest, !.spike_times = <<>>,
              !.last_spike_time = NegInf, !.v_history = <<>>,
              !.spike_history = <<>>]

\* LIF_Neuron.reset
NeuronReset(n) ==
    [n EXCEPT !.v = n.v_rest, !.i_syn = 0, !.spike_times = <<>>,
              !.last_spike_time = NegInf, !.v_history = <<>>,
              !.spike_history = <<>>]

StepCurrentDecayFirst(n, dt, input_current) ==
    Mul(n.i_syn, ExpNeg(dt, n.tau_s)) + input_current

\* i_syn after "self.i_syn += input_current; self.i_syn *= exp(-dt/tau_s)"
StepCurrent(n, dt, input_current) ==
    Mul(n.i_syn + input_current, ExpNeg(dt, n.tau_s))

StepPotentialNoLeak(n, dt, input_current) ==
    n.v + RDiv(StepCurrent(n, dt, input_current), n.tau_m) * dt

\* v after "self.v += dv * dt", before the threshold test
StepPotential(n, dt, input_current) ==
    n.v + RDiv(-(n.v - n.v_rest) + StepCurrent(n, dt, input_current), n.tau_m) * dt

\* The potential the test of line 47 reads is a float: StepPotential is its
\* value in fixed point.  The two differ by the rounding of the fixed-point
\* arithmetic, which the weights and the traces carry from step to step;
\* over the presentations modelled (up to DefaultDuration steps of the
\* default network) the difference stays below RoundingError / Unit = 10^-5.
RoundingError == 1000

\* every value, to eight decimals, the potential the test reads can have
TestedPotentials(n, dt, input_current) ==
    StepPotential(n, dt, input_current) - RoundingError
        .. StepPotential(n, dt, input_current) + RoundingError

\* the values of TestedPotentials the specifications explore, x being
\* StepPotential: x, and, where x is within RoundingError of the threshold,
\* the value next to the threshold on the other side of it, so that the
\* test is explored with both outcomes
SampledNear(n, x) ==
    IF Abs(x - n.threshold) > RoundingError
    THEN {x}
    ELSE {IF x < n.threshold THEN x ELSE n.threshold - 1,
          IF x >= n.threshold THEN x ELSE n.threshold}

\* one potential of cands[k] for every neuron k of a layer
Tested(cands) ==
    IF \A k \in DOMAIN cands : Cardinality(cands[k]) = 1
    THEN {[k \in DOMAIN cands |-> CHOOSE y \in cands[k] : TRUE]}
    ELSE {f \in [DOMAIN cands -> UNION {cands[k] : k \in DOMAIN cands}] :
             \A k \in DOMAIN cands : f[k] \in cands[k]}

StepSpikedStrict(n, tested) == tested > n.threshold

\* the value LIF_Neuron.step returns, tested being the potential of line 47
StepSpiked(n, tested) == tested >= n.threshold

\* the neuron after LIF_Neuron.step(dt, input_current)
NeuronStep(n, dt, input_current, tested) ==
    LET spiked == StepSpiked(n, tested)
        v1 == IF spiked THEN n.v_reset ELSE tested
        now == Len(n.v_history) * dt
    IN [n EXCEPT !.i_syn = StepCurrent(n, dt, input_current),
                 !.v = v1,
                 !.spike_times = IF spiked THEN Append(@, now) ELSE @,
                 !.last_spike_time = IF spiked THEN now ELSE @,
                 !.v_history = Append(@, v1),
                 !.spike_history = Append(@, IF spiked THEN 1 ELSE 0)]

\* ----------------------------------------------------- STDP_Synapse
NewSynapseSwappedIds(pre_id, post_id, w_init, a_plus, a_minus) ==
    [pre_id |-> post_id, post_id |-> pre_id, w |-> w_init,
     w_min |-> WMin, w_max |-> WMax,
     A_plus |-> a_plus, A_minus |-> a_minus,
     tau_plus |-> TauPlus, tau_minus |-> TauMinus,
     w_history |-> <<w_init>>,
     pre_trace |-> 0, post_trace |-> 0]

\* STDP_Synapse.__init__
NewSynapse(pre_id, post_id, w_init, a_plus, a_minus) ==
    [pre_id |-> pre_id, post_id |-> post_id, w |-> w_init,
     w_min |-> WMin, w_max |-> WMax,
     A_plus |-> a_plus, A_minus |-> a_minus,
     tau_plus |-> TauPlus, tau_minus |-> TauMinus,
     w_history |-> <<w_init>>,
     pre_trace |-> 0, post_trace |-> 0]

update_traces_post_first(s, dt, pre_spike, post_spike) ==
    LET pre0 == Mul(s.pre_trace, ExpNeg(dt, s.tau_plus))
        post0 == Mul(s.post_trace, ExpNeg(dt, s.tau_minus))
        post1 == IF post_spike THEN post0 + s.A_minus ELSE post0
        w1 == IF post_spike /\ pre0 > 0 THEN s.w + pre0 ELSE s.w
        pre1 == IF pre_spike THEN pre0 + s.A_plus ELSE pre0
        w2 == IF pre_spike /\ post1 > 0 THEN w1 - post1 ELSE w1
    IN [s EXCEPT !.pre_trace = pre1, !.post_trace = post1,
                 !.w = Clip(w2, s.w_min, s.w_max)]

update_traces_minus(s, dt, pre_spike, post_spike) ==
    LET pre0 == Mul(s.pre_trace, ExpNeg(dt, s.tau_plus))
        post0 == Mul(s.post_trace, ExpNeg(dt, s.tau_minus))
        pre1 == IF pre_spike THEN pre0 + s.A_plus ELSE pre0
        w1 == IF pre_spike /\ post0 > 0 THEN s.w - post0 ELSE s.w
        post1 == IF post_spike THEN post0 - s.A_minus ELSE post0
        w2 == IF post_spike /\ pre1 > 0 THEN w1 + pre1 ELSE w1
    IN [s EXCEPT !.pre_trace = pre1, !.post_trace = post1,
                 !.w = Clip(w2, s.w_min, s.w_max)]

\* STDP_Synapse.update_traces
update_traces(s, dt, pre_spike, post_spike) ==
    LET pre0 == Mul(s.pre_trace, ExpNeg(dt, s.tau_plus))
        post0 == Mul(s.post_trace, ExpNeg(dt, s.tau_minus))
        pre1 == IF pre_spike THEN pre0 + s.A_plus ELSE pre0
        w1 == IF pre_spike /\ post0 > 0 THEN s.w - post0 ELSE s.w
        post1 == IF post_spike THEN post0 + s.A_minus ELSE post0
        w2 == IF post_spike /\ pre1 > 0 THEN w1 + pre1 ELSE w1
    IN [s EXCEPT !.pre_trace = pre1, !.post_trace = post1,
                 !.w = Clip(w2, s.w_min, s.w_max)]

apply_stdp_reversed(s, pre_spike_time, post_spike_time) ==
    LET delta_t == pre_spike_time - post_spike_time
        w1 == IF delta_t > 0
              THEN s.w + Mul(s.A_plus, ExpNegTimes(delta_t, s.tau_plus))
              ELSE IF delta_t < 0
              THEN s.w - Mul(s.A_minus, ExpNegTimes(-delta_t, s.tau_minus))
              ELSE s.w
    IN [s EXCEPT !.w = Clip(w1, s.w_min, s.w_max)]

\* STDP_Synapse.apply_stdp
apply_stdp(s, pre_spike_time, post_spike_time) ==
    LET delta_t == post_spike_time - pre_spike_time
        w1 == IF delta_t > 0
              THEN s.w + Mul(s.A_plus, ExpNegTimes(delta_t, s.tau_plus))
              ELSE IF delta_t < 0
              THEN s.w - Mul(s.A_minus, ExpNegTimes(-delta_t, s.tau_minus))
              ELSE s.w
    IN [s EXCEPT !.w = Clip(w1, s.w_min, s.w_max)]

\* STDP_Synapse.record_weight
record_weight(s) == [s EXCEPT !.w_history = Append(@, s.w)]

\* ------------------------------------- SNN1/software/model_xor.py
\* the parameters and weights SNN_XOR.__init__ sets
XorThreshold == 15
XorLeak == 1
W_I0_H0 == 20
W_I1_H0 == 20
W_I0_H1 == 20
W_I1_H1 == 20
W_H0_O == 15
W_H1_O == 15
W_H0_H1 == -25
W_H1_H0 == -25
\* time_steps of the calls main() makes
XorTimeSteps == 50

\* LIF_Neuron.__init__ of model_xor.py
XorNewNeuron(threshold, leak, name) ==
    [threshold |-> threshold, leak |-> leak, potential |-> 0, name |-> name,
     spike_history |-> <<>>]

\* the potential after input, leak and the clamp at zero, before the
\* threshold test of LIF_Neuron.step
XorCharged(n, input_current) ==
    IF n.potential + input_current - n.leak < 0 THEN 0
    ELSE n.potential + input_current - n.leak

\* the value LIF_Neuron.step returns (0 or 1)
XorSpike(n, input_current) ==
    IF XorCharged(n, input_current) >= n.threshold THEN 1 ELSE 0

XorNeuronStepNoReset(n, input_current, time_step) ==
    [n EXCEPT !.potential = XorCharged(n, input_current),
              !.spike_history = IF XorSpike(n, input_current) = 1
                                THEN Append(@, time_step) ELSE @]

\* the neuron after LIF_Neuron.step(input_current, time_step)
XorNeuronStep(n, input_current, time_step) ==
    [n EXCEPT !.potential = IF XorSpike(n, input_current) = 1 THEN 0
                            ELSE XorCharged(n, input_current),
              !.spike_history = IF XorSpike(n, input_current) = 1
                                THEN Append(@, time_step) ELSE @]

XorNeuronResetKeepsHistory(n) == [n EXCEPT !.potential = 0]

\* LIF_Neuron.reset of model_xor.py
XorNeuronReset(n) == [n EXCEPT !.potential = 0, !.spike_history = <<>>]

\* "potential += w; if potential < 0: potential = 0" of the lateral inhibition
XorInhibit(n, w) ==
    [n EXCEPT !.potential = IF @ + w < 0 THEN 0 ELSE @ + w]

\* SNN_XOR.__init__
NewXor ==
    [threshold |-> XorThreshold, leak |-> XorLeak,
     hidden_0 |-> XorNewNeuron(XorThreshold, XorLeak, "Hidden_0"),
     hidden_1 |-> XorNewNeuron(XorThreshold, XorLeak, "Hidden_1"),
     output |-> XorNewNeuron(XorThreshold, XorLeak, "Output"),
     w_i0_h0 |-> W_I0_H0, w_i1_h0 |-> W_I1_H0,
     w_i0_h1 |-> W_I0_H1, w_i1_h1 |-> W_I1_H1,
     w_h0_o |-> W_H0_O, w_h1_o |-> W_H1_O,
     w_h0_h1 |-> W_H0_H1, w_h1_h0 |-> W_H1_H0]

\* ----------------------------------------------------- STDP_Network
VARIABLES
    n_input, n_hidden, n_output,    \* layer sizes
    stdp_enabled,                   \* self.stdp_enabled
    input_neurons, hidden_neurons, output_neurons,
    synapses_ih, synapses_ho,       \* flat lists, index pre * n_target + post
    sim,                            \* the frame of the running simulate_pattern call
    obs,                            \* the local values of the last simulated step
                                    \* and the hidden->output weights it read
    ret,                            \* outcome of the last call ("pending" while it runs)
    calls,                          \* simulate_pattern calls begun
    syn, syn_calls,                 \* a synapse on its own, and the calls made on it
    nrn, nrn_obs,                   \* a neuron on its own, and its last step call
    arg, result,                    \* the argument and the value of a function call
    xor,                            \* the SNN_XOR object
    xsim,                           \* the frame of the running SNN_XOR.simulate call
    xret                            \* the outcomes of the simulate calls, in order

netvars == <<n_input, n_hidden, n_output, stdp_enabled, input_neurons,
             hidden_neurons, output_neurons, synapses_ih, synapses_ho>>
vars == <<n_input, n_hidden, n_output, stdp_enabled, input_neurons,
          hidden_neurons, output_neurons, synapses_ih, synapses_ho,
          sim, obs, ret, calls, syn, syn_calls, nrn, nrn_obs, arg, result,
          xor, xsim, xret>>
xorvars == <<xor, xsim, xret>>
\* the variables the operations of the network leave alone
others == <<nrn, nrn_obs, arg, result, xorvars>>

\* the bounds of np.random.uniform(lo, hi) at lines 193 and 202
WInitIHLow == 20000000
WInitIHHigh == 50000000
WInitHOLow == 10000000
WInitHOHigh == 30000000
\* every value np.random.uniform(lo, hi) can return, to eight decimals
uniform(lo, hi) == lo .. hi - 1

\* every pair of weight vectors the draws of lines 193 and 202 can give a
\* network of ni x nh x no neurons
ConstructorDraws(ni, nh, no) ==
    [ih : [0 .. ni * nh - 1 -> uniform(WInitIHLow, WInitIHHigh)],
     ho : [0 .. nh * no - 1 -> uniform(WInitHOLow, WInitHOHigh)]]

\* the draws the bounded specifications take from ConstructorDraws: two
\* profiles, SampleDraw(lo, hi, p, k) being the k-th draw of profile p
DrawProfiles == {0, 1}
SampleDraw(lo, hi, p, k) ==
    IF p = 0 THEN lo + ((k * 3000000) % (hi - lo))
             ELSE hi - 1000000 - ((k * 1000000) % (hi - lo - 1000000))

SampledDraws ==
    {[ih |-> [k \in 0 .. NInput * NHidden - 1 |->
                 SampleDraw(WInitIHLow, WInitIHHigh, p, k)],
      ho |-> [k \in 0 .. NHidden * NOutput - 1 |->
                 SampleDraw(WInitHOLow, WInitHOHigh, p, k)]] : p \in DrawProfiles}

\* a draw of the constructor with which, both inputs firing at every step,
\* a hidden neuron comes within RoundingError of its threshold in pass 14
CloseDraw ==
    [ih |-> [k \in 0 .. NInput * NHidden - 1 |->
                <<43917977, 48153671, 40125446, 37609434>>[(k % 4) + 1]],
     ho |-> [k \in 0 .. NHidden * NOutput - 1 |->
                <<28870143, 25322431, 28403701, 27353738>>[(k % 4) + 1]]]

\* a pattern whose odd pixels are active
SeqPattern == [k \in 1 .. NInput |-> IF k % 2 = 1 THEN 1 ELSE 0]

NoLabel == [given |-> FALSE, value |-> 0]
SomeLabel(v) == [given |-> TRUE, value |-> v]

IdleFrame == [pc |-> "idle"]
NoObs == [step |-> -1]
NoRet == [op |-> "none", error |-> "none", value |-> <<>>]
NoCall == [op |-> "none"]

\* the XOR network as built, with no simulate call made
XorIdle ==
    /\ xor = NewXor
    /\ xsim = IdleFrame
    /\ xret = <<>>

\* the neuron and the function call while they are not used
OthersIdle ==
    /\ nrn = NewNeuron(0, ThresholdOutput)
    /\ nrn_obs = NoCall
    /\ arg = <<>>
    /\ result = NoCall
    /\ XorIdle

\* STDP_Network.__init__ with the weights wih, who drawn for the synapses
NetworkInit(ni, nh, no, enabled, wih, who) ==
    /\ n_input = ni
    /\ n_hidden = nh
    /\ n_output = no
    /\ stdp_enabled = enabled
    /\ input_neurons = [i \in 0 .. ni - 1 |-> NewNeuron(i, ThresholdInput)]
    /\ hidden_neurons = [h \in 0 .. nh - 1 |-> NewNeuron(h, ThresholdHidden)]
    /\ output_neurons = [o \in 0 .. no - 1 |-> NewNeuron(o, ThresholdOutput)]
    /\ synapses_ih = [k \in 0 .. ni * nh - 1 |->
                        NewSynapse(k \div nh, k % nh, wih[k], APlusIH, AMinusIH)]
    /\ synapses_ho = [k \in 0 .. nh * no - 1 |->
                        NewSynapse(k \div no, k % no, who[k], APlusHO, AMinusHO)]
    /\ sim = IdleFrame
    /\ obs = NoObs
    /\ ret = NoRet
    /\ calls = 0

\* STDP_Network.reset
Reset ==
    /\ sim.pc = "idle"
    /\ input_neurons' = [i \in DOMAIN input_neurons |-> NeuronReset(input_neurons[i])]
    /\ hidden_neurons' = [h \in DOMAIN hidden_neurons |-> NeuronReset(hidden_neurons[h])]
    /\ output_neurons' = [o \in DOMAIN output_neurons |-> NeuronReset(output_neurons[o])]
    /\ ret' = [op |-> "reset", error |-> "none", value |-> <<>>]
    /\ UNCHANGED <<n_input, n_hidden, n_output, stdp_enabled, synapses_ih,
                   synapses_ho, sim, obs, calls, syn, syn_calls, others>>

\* STDP_Network.record_weights, as train_stdp.py calls it after an epoch
RecordWeights ==
    /\ sim.pc = "idle"
    /\ \A k \in DOMAIN synapses_ih : Len(synapses_ih[k].w_history) <= MaxRecords
    /\ synapses_ih' = [k \in DOMAIN synapses_ih |-> record_weight(synapses_ih[k])]
    /\ synapses_ho' = [k \in DOMAIN synapses_ho |-> record_weight(synapses_ho[k])]
    /\ ret' = [op |-> "record_weights", error |-> "none", value |-> <<>>]
    /\ UNCHANGED <<n_input, n_hidden, n_output, stdp_enabled, input_neurons,
                   hidden_neurons, output_neurons, sim, obs, calls, syn,
                   syn_calls, others>>

\* net.stdp_enabled = b, as the test code of train_stdp.py assigns it
SetStdpEnabled(b) ==
    /\ sim.pc = "idle"
    /\ stdp_enabled' = b
    /\ UNCHANGED <<n_input, n_hidden, n_output, input_neurons, hidden_neurons,
                   output_neurons, synapses_ih, synapses_ho, sim, obs, ret,
                   calls, syn, syn_calls, others>>

NStepsOneMore(duration) == duration \div (DT * PerMs) + 1

\* int(duration / self.dt)
NSteps(duration) == duration \div (DT * PerMs)

\* The boolean sequences of length n that the draws
\* "np.random.random(n_steps) < p_spike" can give: p_spike is 0.1 or 0.005,
\* so every sequence can be drawn.
Trains(n) == [1 .. n -> BOOLEAN]

\* the results encode_spike_train(pattern, duration) can return: one train
\* for each index of the pattern
encode_spike_train(pattern, duration) ==
    [0 .. Len(pattern) - 1 -> Trains(NSteps(duration))]

\* the trains the bounded specifications draw: the one that never fires and
\* those that fire every p-th step, p in 1 .. maxPeriod
PeriodicTrains(n, maxPeriod) ==
    {[k \in 1 .. n |-> p > 0 /\ (k - 1) % p = 0] : p \in 0 .. maxPeriod}

\* a train with irregular gaps: it fires at the steps 3, 4, 10, 11, 17, ...
IrregularTrain(n) == [k \in 1 .. n |-> (k * k) % 7 = 2]

\* the results of encode_spike_train the bounded specifications draw:
\* every input on one of the periodic trains
\* an entry of the pattern beyond the NInput-th, which no input neuron reads,
\* takes the train of the entry NInput places before it
SampledTrains(pattern, duration, maxPeriod) ==
    {[i \in 0 .. Len(pattern) - 1 |-> t[i % NInput]] :
        t \in [0 .. NInput - 1 -> PeriodicTrains(NSteps(duration), maxPeriod)]}
\* the same, and two results with irregular trains: every input on the
\* irregular train, and the first input on it while the others never fire
SampledTrainsIrregular(pattern, duration, maxPeriod) ==
    SampledTrains(pattern, duration, maxPeriod)
    \cup {[i \in 0 .. Len(pattern) - 1 |-> IrregularTrain(NSteps(duration))],
          [i \in 0 .. Len(pattern) - 1 |->
              IF i = 0 THEN IrregularTrain(NSteps(duration))
                       ELSE [k \in 1 .. NSteps(duration) |-> FALSE]]}

\* simulate_pattern up to the loop: n_steps, the spike trains (trains is the
\* result of encode_spike_train), the records
SimulateBegin(pattern, duration, label, trains) ==
    /\ sim.pc = "idle"
    /\ trains \in encode_spike_train(pattern, duration)
    /\ sim' = [pc |-> "loop", pattern |-> pattern, label |-> label,
               duration |-> duration,
               n_steps |-> NSteps(duration), step |-> 0,
               input_spikes |-> trains,
               hidden_spikes |-> [h \in 0 .. n_hidden - 1 |-> <<>>],
               output_spikes |-> [o \in 0 .. n_output - 1 |-> <<>>]]
    /\ ret' = [op |-> "simulate_pattern", error |-> "pending", value |-> <<>>]
    /\ calls' = calls + 1
    /\ UNCHANGED <<netvars, obs, syn, syn_calls, others>>

\* input_spike_flags of the step (line 269)
InputFlags ==
    [i \in 0 .. n_input - 1 |-> sim.input_spikes[i][sim.step + 1]]

\* i_input of hidden neuron h: the weights of the synapses whose input spiked
HiddenCurrent(h, in_flags) ==
    SumTo([i \in 0 .. n_input - 1 |->
              IF in_flags[i] THEN synapses_ih[i * n_hidden + h].w ELSE 0],
          n_input)

RawCurrentPreviousStep(o, hid_flags) ==
    SumTo([h \in 0 .. n_hidden - 1 |->
              IF /\ hidden_neurons[h].spike_history # <<>>
                 /\ Last(hidden_neurons[h].spike_history) = 1
              THEN synapses_ho[h * n_output + o].w ELSE 0],
          n_hidden)

\* output_currents[o]: the weights of the synapses whose hidden neuron spiked
RawCurrent(o, hid_flags) ==
    SumTo([h \in 0 .. n_hidden - 1 |->
              IF hid_flags[h] THEN synapses_ho[h * n_output + o].w ELSE 0],
          n_hidden)

InhibitedIncludingSelf(o, raw) ==
    raw[o] - SumTo([j \in 0 .. n_output - 1 |->
                       IF raw[j] > 0
                       THEN Mul(raw[j], LateralInhibition) ELSE 0],
                   n_output)

\* i_input of output neuron o after the lateral inhibition of the others
Inhibited(o, raw) ==
    raw[o] - SumTo([j \in 0 .. n_output - 1 |->
                       IF j # o /\ raw[j] > 0
                       THEN Mul(raw[j], LateralInhibition) ELSE 0],
                   n_output)

TeachingSwapped(o, label, enabled) ==
    IF label.given /\ enabled
    THEN IF o # label.value THEN TeachBoost ELSE -TeachSuppress
    ELSE 0

TeachingAlways(o, label, enabled) ==
    IF label.given
    THEN IF o = label.value THEN TeachBoost ELSE -TeachSuppress
    ELSE 0

\* what the teaching signal adds to i_input of output neuron o
Teaching(o, label, enabled) ==
    IF label.given /\ enabled
    THEN IF o = label.value THEN TeachBoost ELSE -TeachSuppress
    ELSE 0

IHPlasticityStaleFlag(s, enabled, pre, post) ==
    LET before == hidden_neurons[s.post_id].spike_history
        stale == before # <<>> /\ Last(before) = 1
    IN IF enabled
       THEN [s |-> update_traces(s, DT, pre, stale), calls |-> <<<<pre, stale>>>>]
       ELSE [s |-> s, calls |-> <<>>]

IHPlasticityAlways(s, enabled, pre, post) ==
    [s |-> update_traces(s, DT, pre, post), calls |-> <<<<pre, post>>>>]

\* the plasticity of one input->hidden synapse in a step: the synapse after
\* it and the update_traces calls made on it
IHPlasticity(s, enabled, pre, post) ==
    IF enabled
    THEN [s |-> update_traces(s, DT, pre, post), calls |-> <<<<pre, post>>>>]
    ELSE [s |-> s, calls |-> <<>>]

HOPlasticityNoClip(s, enabled, label, o, hid, out) ==
    IF ~enabled THEN [s |-> s, calls |-> <<>>]
    ELSE IF label.given
    THEN IF o = label.value
         THEN LET a == update_traces(s, DT, hid, out)
                  b == IF hid THEN [a EXCEPT !.w = @ + RewardHidden] ELSE a
                  c == IF out THEN [b EXCEPT !.w = @ + RewardOutput] ELSE b
              IN [s |-> c, calls |-> <<<<hid, out>>>>]
         ELSE LET b == IF hid THEN [s EXCEPT !.w = @ - PunishHidden] ELSE s
                  c == IF out THEN [b EXCEPT !.w = @ - PunishOutput] ELSE b
              IN [s |-> c, calls |-> <<>>]
    ELSE [s |-> update_traces(s, DT, hid, out), calls |-> <<<<hid, out>>>>]

HOPlasticityUngated(s, enabled, label, o, hid, out) ==
    LET r == IF label.given
             THEN IF o = label.value
                  THEN LET a == update_traces(s, DT, hid, out)
                           b == IF hid THEN [a EXCEPT !.w = @ + RewardHidden] ELSE a
                           c == IF out THEN [b EXCEPT !.w = @ + RewardOutput] ELSE b
                       IN [s |-> c, calls |-> <<<<hid, out>>>>]
                  ELSE LET b == IF hid THEN [s EXCEPT !.w = @ - PunishHidden] ELSE s
                           c == IF out THEN [b EXCEPT !.w = @ - PunishOutput] ELSE b
                       IN [s |-> c, calls |-> <<>>]
             ELSE [s |-> update_traces(s, DT, hid, out),
                   calls |-> <<<<hid, out>>>>]
    IN [s |-> [r.s EXCEPT !.w = Clip(@, r.s.w_min, r.s.w_max)],
        calls |-> r.calls]

\* the plasticity of one hidden->output synapse in a step (lines 339-364)
HOPlasticity(s, enabled, label, o, hid, out) ==
    IF ~enabled THEN [s |-> s, calls |-> <<>>]
    ELSE LET r == IF label.given
                  THEN IF o = label.value
                       THEN LET a == update_traces(s, DT, hid, out)
                                b == IF hid THEN [a EXCEPT !.w = @ + RewardHidden] ELSE a
                                c == IF out THEN [b EXCEPT !.w = @ + RewardOutput] ELSE b
                            IN [s |-> c, calls |-> <<<<hid, out>>>>]
                       ELSE LET b == IF hid THEN [s EXCEPT !.w = @ - PunishHidden] ELSE s
                                c == IF out THEN [b EXCEPT !.w = @ - PunishOutput] ELSE b
                            IN [s |-> c, calls |-> <<>>]
                  ELSE [s |-> update_traces(s, DT, hid, out),
                        calls |-> <<<<hid, out>>>>]
         IN [s |-> [r.s EXCEPT !.w = Clip(@, r.s.w_min, r.s.w_max)],
             calls |-> r.calls]

\* one pass of the loop body of simulate_pattern (lines 266-364); each local
\* value of the pass is bound once, in the order the code computes it
SimulateStep ==
    /\ sim.pc = "loop"
    /\ sim.step < sim.n_steps
    /\ IF Len(sim.pattern) < n_input
       THEN \* input_spikes[i] of line 269 raises KeyError for i >= len(pattern)
            /\ sim' = IdleFrame
            /\ ret' = [op |-> "simulate_pattern", error |-> "KeyError",
                       value |-> <<>>]
            /\ UNCHANGED <<netvars, obs, calls, syn, syn_calls, others>>
       ELSE \E in_flags \in {Tab(InputFlags)} :
            \E hid_in \in {Tab([h \in 0 .. n_hidden - 1 |->
                                   HiddenCurrent(h, in_flags)])} :
            \E hid_x \in {Tab([h \in 0 .. n_hidden - 1 |->
                                  StepPotential(hidden_neurons[h], DT,
                                                hid_in[h])])} :
            \E hid_cands \in {Tab([h \in 0 .. n_hidden - 1 |->
                                      SampledNear(hidden_neurons[h],
                                                  hid_x[h])])} :
            \E hid_tested \in Tested(hid_cands) :
            \E hid_flags \in {Tab([h \in 0 .. n_hidden - 1 |->
                                      StepSpiked(hidden_neurons[h],
                                                 hid_tested[h])])} :
            \E raw \in {Tab([o \in 0 .. n_output - 1 |->
                                RawCurrent(o, hid_flags)])} :
            \E inhibited \in {Tab([o \in 0 .. n_output - 1 |->
                                      Inhibited(o, raw)])} :
            \E net \in {Tab([o \in 0 .. n_output - 1 |->
                                inhibited[o]
                                + Teaching(o, sim.label, stdp_enabled)])} :
            \E out_x \in {Tab([o \in 0 .. n_output - 1 |->
                                  StepPotential(output_neurons[o], DT,
                                                net[o])])} :
            \E out_cands \in {Tab([o \in 0 .. n_output - 1 |->
                                      SampledNear(output_neurons[o],
                                                  out_x[o])])} :
            \E out_tested \in Tested(out_cands) :
            \E out_flags \in {Tab([o \in 0 .. n_output - 1 |->
                                      StepSpiked(output_neurons[o],
                                                 out_tested[o])])} :
            \E ih \in {Tab([k \in DOMAIN synapses_ih |->
                               IHPlasticity(synapses_ih[k], stdp_enabled,
                                            in_flags[k \div n_hidden],
                                            hid_flags[k % n_hidden])])} :
            \E ho \in {Tab([k \in DOMAIN synapses_ho |->
                               HOPlasticity(synapses_ho[k], stdp_enabled,
                                            sim.label, k % n_output,
                                            hid_flags[k \div n_output],
                                            out_flags[k % n_output])])} :
               /\ \A h \in 0 .. n_hidden - 1 :
                     hid_tested[h] \in TestedPotentials(hidden_neurons[h], DT,
                                                        hid_in[h])
               /\ \A o \in 0 .. n_output - 1 :
                     out_tested[o] \in TestedPotentials(output_neurons[o], DT,
                                                        net[o])
               /\ hidden_neurons' = [h \in 0 .. n_hidden - 1 |->
                                        NeuronStep(hidden_neurons[h], DT,
                                                   hid_in[h], hid_tested[h])]
               /\ output_neurons' = [o \in 0 .. n_output - 1 |->
                                        NeuronStep(output_neurons[o], DT,
                                                   net[o], out_tested[o])]
               /\ synapses_ih' = [k \in DOMAIN synapses_ih |-> ih[k].s]
               /\ synapses_ho' = [k \in DOMAIN synapses_ho |-> ho[k].s]
               /\ sim' = [sim EXCEPT
                            !.step = @ + 1,
                            !.hidden_spikes = [h \in 0 .. n_hidden - 1 |->
                                IF hid_flags[h]
                                THEN Append(@[h], sim.step * DT) ELSE @[h]],
                            !.output_spikes = [o \in 0 .. n_output - 1 |->
                                IF out_flags[o]
                                THEN Append(@[o], sim.step * DT) ELSE @[o]]]
               /\ obs' = [step |-> sim.step, label |-> sim.label,
                          enabled |-> stdp_enabled,
                          in_flags |-> in_flags, hid_flags |-> hid_flags,
                          hid_in |-> hid_in, hid_tested |-> hid_tested,
                          out_tested |-> out_tested,
                          out_flags |-> out_flags, raw |-> raw,
                          inhibited |-> inhibited, net |-> net,
                          w_ho |-> [k \in DOMAIN synapses_ho |-> synapses_ho[k].w],
                          ih_calls |-> [k \in DOMAIN synapses_ih |-> ih[k].calls],
                          ho_calls |-> [k \in DOMAIN synapses_ho |-> ho[k].calls]]
               /\ UNCHANGED <<n_input, n_hidden, n_output, stdp_enabled,
                              input_neurons, ret, calls, syn, syn_calls, nrn,
                              nrn_obs, arg, result, xorvars>>

\* the return of simulate_pattern (line 366)
SimulateReturn ==
    /\ sim.pc = "loop"
    /\ sim.step = sim.n_steps
    /\ ret' = [op |-> "simulate_pattern", error |-> "none",
               value |-> <<sim.hidden_spikes, sim.output_spikes>>]
    /\ sim' = IdleFrame
    /\ UNCHANGED <<netvars, obs, calls, syn, syn_calls, others>>

GetWeightsMatrixLenient(layer) ==
    /\ sim.pc = "idle"
    /\ ret' = IF layer = "input_hidden"
              THEN [op |-> "get_weights_matrix", layer |-> layer, error |-> "none",
                    value |-> [i \in 0 .. n_input - 1 |-> [h \in 0 .. n_hidden - 1 |->
                                  synapses_ih[i * n_hidden + h].w]]]
              ELSE [op |-> "get_weights_matrix", layer |-> layer, error |-> "none",
                    value |-> [h \in 0 .. n_hidden - 1 |-> [o \in 0 .. n_output - 1 |->
                                  synapses_ho[h * n_output + o].w]]]
    /\ UNCHANGED <<netvars, sim, obs, calls, syn, syn_calls, others>>

\* STDP_Network.get_weights_matrix
GetWeightsMatrix(layer) ==
    /\ sim.pc = "idle"
    /\ ret' = IF layer = "input_hidden"
              THEN [op |-> "get_weights_matrix", layer |-> layer, error |-> "none",
                    value |-> [i \in 0 .. n_input - 1 |-> [h \in 0 .. n_hidden - 1 |->
                                  synapses_ih[i * n_hidden + h].w]]]
              ELSE IF layer = "hidden_output"
              THEN [op |-> "get_weights_matrix", layer |-> layer, error |-> "none",
                    value |-> [h \in 0 .. n_hidden - 1 |-> [o \in 0 .. n_output - 1 |->
                                  synapses_ho[h * n_output + o].w]]]
              ELSE [op |-> "get_weights_matrix", layer |-> layer,
                    error |-> "ValueError: Unknown layer", value |-> <<>>]
    /\ UNCHANGED <<netvars, sim, obs, calls, syn, syn_calls, others>>

RECURSIVE argmaxLast(_, _)
argmaxLast(f, n) ==
    IF n = 1 THEN 0
    ELSE LET best == argmaxLast(f, n - 1)
         IN IF f[n - 1] >= f[best] THEN n - 1 ELSE best

RECURSIVE argmax(_, _)
\* np.argmax of the list f[0], ..., f[n-1], n > 0: a scan that keeps the
\* first index holding the largest value
argmax(f, n) ==
    IF n = 1 THEN 0
    ELSE LET best == argmax(f, n - 1)
         IN IF f[n - 1] > f[best] THEN n - 1 ELSE best

\* [len(spikes) for spikes in output_spikes]
spike_counts(output_spikes) ==
    [o \in DOMAIN output_spikes |-> Len(output_spikes[o])]

\* STDP_Network.get_winner
get_winner(output_spikes) ==
    argmax(spike_counts(output_spikes), Cardinality(DOMAIN output_spikes))

\* np.round(a / b) for b > 0: to the nearest integer, a half to the even one
RoundHalfEven(a, b) ==
    LET q == Abs(a) \div b
        r == Abs(a) % b
        m == IF 2 * r < b THEN q
             ELSE IF 2 * r > b THEN q + 1
             ELSE IF q % 2 = 0 THEN q ELSE q + 1
    IN IF a >= 0 THEN m ELSE -m

\* the scale of "np.round(W * 15).astype(int)" in save_weights
QuantScale == 15

QuantizeScale16(w) == RoundHalfEven(w * 16, Unit)

\* one entry of np.round(W * 15).astype(int)
Quantize(w) == RoundHalfEven(w * QuantScale, Unit)

\* ------------------------------------------------- the specifications
\* the arguments the callers are modelled to pass
Patterns ==
    {[k \in 1 .. n |-> IF k % 2 = 1 THEN 1 ELSE 0] :
        n \in {NInput - 1, NInput, NInput + 1}}
Labels == {NoLabel} \cup {SomeLabel(v) : v \in -1 .. NOutput}
\* no time at all, two and a half milliseconds, and the long presentation
Durations == {0, ShortDuration * PerMs + 1, LongDuration * PerMs}
Layers == {"input_hidden", "hidden_output", "output_hidden", ""}

\* A network of NInput x NHidden x NOutput neurons as the constructor builds it.
Init ==
    /\ \E d \in SampledDraws \cup {CloseDraw} :
          /\ d \in ConstructorDraws(NInput, NHidden, NOutput)
          /\ NetworkInit(NInput, NHidden, NOutput, TRUE, d.ih, d.ho)
    /\ syn = NewSynapse(0, 0, WMin, APlusDefault, AMinusDefault)
    /\ syn_calls = <<>>
    /\ OthersIdle

\* One presentation, with every kind of argument, of a network just built,
\* with resets, matrix reads and assignments of stdp_enabled around it, and
\* record_weights after it as the training loop calls it.
Next ==
    \/ Reset
    \/ \E b \in BOOLEAN : SetStdpEnabled(b)
    \/ /\ calls = 0
       /\ \E pattern \in Patterns, duration \in Durations, label \in Labels :
             \E trains \in SampledTrainsIrregular(pattern, duration, TrainPeriod) :
                SimulateBegin(pattern, duration, label, trains)
    \/ SimulateStep
    \/ SimulateReturn
    \/ \E layer \in Layers : GetWeightsMatrix(layer)
    \/ /\ calls > 0
       /\ RecordWeights

Spec == Init /\ [][Next]_vars

\* The presentation of the end-to-end test: the default 4 x 8 x 3 network,
\* built with stdp_enabled true or false, with every weight set to 0, pattern
\* [1,0,1,1], label 0, 200 ms, and spike trains in which no input fires.
InitZero ==
    /\ \E enabled \in BOOLEAN :
          NetworkInit(DefaultNInput, DefaultNHidden, DefaultNOutput, enabled,
             [k \in 0 .. DefaultNInput * DefaultNHidden - 1 |-> 0],
             [k \in 0 .. DefaultNHidden * DefaultNOutput - 1 |-> 0])
    /\ syn = NewSynapse(0, 0, WMin, APlusDefault, AMinusDefault)
    /\ syn_calls = <<>>
    /\ OthersIdle

NextZero ==
    \/ /\ calls = 0
       /\ \E trains \in SampledTrains(<<1, 0, 1, 1>>, DefaultDuration * PerMs, 0) :
             SimulateBegin(<<1, 0, 1, 1>>, DefaultDuration * PerMs,
                           SomeLabel(0), trains)
    \/ SimulateStep
    \/ SimulateReturn

SpecZero == InitZero /\ [][NextZero]_vars

\* Sequences of short presentations of a well-formed pattern, with or without
\* reset() between them.
NextSeq ==
    \/ Reset
    \/ /\ calls < SeqPresentations
       /\ \E label \in {NoLabel, SomeLabel(0)} :
             \E trains \in SampledTrains(SeqPattern, ShortDuration * PerMs, 1) :
                SimulateBegin(SeqPattern, ShortDuration * PerMs, label, trains)
    \/ SimulateStep
    \/ SimulateReturn

SpecSeq == Init /\ [][NextSeq]_vars

\* Presentations of a pattern with one active pixel, long enough for the
\* neurons to spike, one after the other on the same network without
\* reset() between them, and with stdp_enabled set to False before any of
\* them, as test_trained_network sets it after training.
RepeatDuration == 9
\* a pattern with one active pixel
RepeatPattern == [k \in 1 .. NInput |-> IF k = 1 THEN 1 ELSE 0]

NextRepeat ==
    \/ SetStdpEnabled(FALSE)
    \/ /\ calls < SeqPresentations
       /\ \E label \in {NoLabel, SomeLabel(0)} :
             \E trains \in SampledTrains(RepeatPattern, RepeatDuration * PerMs, 1) :
                SimulateBegin(RepeatPattern, RepeatDuration * PerMs, label,
                              trains)
    \/ SimulateStep
    \/ SimulateReturn

SpecRepeat == Init /\ [][NextRepeat]_vars

SynapseInitWeights == {WMin, 50000000, 99000000, WMax}

InitSynapse ==
    /\ NetworkInit(NInput, NHidden, NOutput, TRUE,
          [k \in 0 .. NInput * NHidden - 1 |->
              SampleDraw(WInitIHLow, WInitIHHigh, 0, k)],
          [k \in 0 .. NHidden * NOutput - 1 |->
              SampleDraw(WInitHOLow, WInitHOHigh, 0, k)])
    /\ \E w \in SynapseInitWeights :
          \/ syn = NewSynapse(0, 0, w, APlusDefault, AMinusDefault)
          \/ syn = NewSynapse(0, 0, w, APlusHO, AMinusHO)
    /\ syn_calls = <<>>
    /\ OthersIdle

\* syn.update_traces(dt, pre_spike, post_spike)
SynUpdateTraces(pre_spike, post_spike) ==
    /\ Len(syn_calls) < MaxSynapseCalls
    /\ syn' = update_traces(syn, DT, pre_spike, post_spike)
    /\ syn_calls' = Append(syn_calls, <<pre_spike, post_spike>>)
    /\ UNCHANGED <<netvars, sim, obs, ret, calls, others>>

\* pairs of spike times (ms): pre before post, post before pre, together
StdpTimes == {<<0, 3>>, <<3, 0>>, <<2, 2>>}

\* syn.apply_stdp(pre_spike_time, post_spike_time)
SynApplyStdp(pre_spike_time, post_spike_time) ==
    /\ Len(syn_calls) < MaxSynapseCalls
    /\ syn' = apply_stdp(syn, pre_spike_time, post_spike_time)
    /\ syn_calls' = Append(syn_calls,
                           <<"apply_stdp", pre_spike_time, post_spike_time>>)
    /\ UNCHANGED <<netvars, sim, obs, ret, calls, others>>

\* syn.record_weight()
SynRecordWeight ==
    /\ Len(syn_calls) < MaxSynapseCalls
    /\ syn' = record_weight(syn)
    /\ syn_calls' = Append(syn_calls, <<"record_weight">>)
    /\ UNCHANGED <<netvars, sim, obs, ret, calls, others>>

\* One synapse, built with an initial weight in [w_min, w_max], and either
\* any sequence of update_traces, apply_stdp and record_weight calls on it,
\* or one presentation of a pattern to the network, whose passes make the
\* calls of lines 334, 344 and 361 on the synapses of the network.
NextSynapse ==
    \/ /\ calls = 0
       /\ \E pre_spike \in BOOLEAN, post_spike \in BOOLEAN :
             SynUpdateTraces(pre_spike, post_spike)
    \/ /\ calls = 0
       /\ \E times \in StdpTimes : SynApplyStdp(times[1], times[2])
    \/ /\ calls = 0
       /\ SynRecordWeight
    \/ /\ calls = 0 /\ syn_calls = <<>>
       /\ \E label \in {NoLabel, SomeLabel(0)} :
             \E trains \in SampledTrains(RepeatPattern, RepeatDuration * PerMs, 1) :
                SimulateBegin(RepeatPattern, RepeatDuration * PerMs, label,
                              trains)
    \/ SimulateStep
    \/ SimulateReturn

SpecSynapse == InitSynapse /\ [][NextSynapse]_vars

\* One neuron, built with one of the thresholds the network uses, and any
\* sequence of step calls on it with the currents a presentation can feed:
\* none, the teaching boost, the teaching suppression, the largest hidden
\* current (every input spiking through a weight of w_max) and the lowest
\* output current (suppression plus the inhibition by every other output).
MaxNeuronSteps == 6
\* NeuronInputs holds, with the extremes, a hidden current between them
\* (2.607439) that takes a stepped neuron to within RoundingError of its
\* threshold.
\* thresholds of the neurons stepped on their own: those of the network's
\* hidden and output neurons, and threshold = v_rest, a neuron that is at its
\* threshold when built
NeuronThresholds == {ThresholdHidden, ThresholdOutput, VRest}
NeuronInputs ==
    {0, TeachBoost, -TeachSuppress, DefaultNInput * WMax, 260743900,
     -(TeachSuppress
       + Mul((DefaultNOutput - 1) * DefaultNHidden * WMax, LateralInhibition))}

InitNeuron ==
    /\ NetworkInit(NInput, NHidden, NOutput, TRUE,
          [k \in 0 .. NInput * NHidden - 1 |->
              SampleDraw(WInitIHLow, WInitIHHigh, 0, k)],
          [k \in 0 .. NHidden * NOutput - 1 |->
              SampleDraw(WInitHOLow, WInitHOHigh, 0, k)])
    /\ syn = NewSynapse(0, 0, WMin, APlusDefault, AMinusDefault)
    /\ syn_calls = <<>>
    /\ \E threshold \in NeuronThresholds : nrn = NewNeuron(0, threshold)
    /\ nrn_obs = NoCall
    /\ arg = <<>>
    /\ result = NoCall
    /\ XorIdle

\* spiked = nrn.step(dt, input_current)
NrnStep(input_current) ==
    /\ Len(nrn.v_history) < MaxNeuronSteps
    /\ \E x \in {StepPotential(nrn, DT, input_current)} :
       \E tested \in SampledNear(nrn, x) :
          /\ tested \in TestedPotentials(nrn, DT, input_current)
          /\ nrn' = NeuronStep(nrn, DT, input_current, tested)
          /\ nrn_obs' = [op |-> "step", pre |-> nrn,
                         input_current |-> input_current, tested |-> tested,
                         spiked |-> StepSpiked(nrn, tested)]
    /\ UNCHANGED <<netvars, sim, obs, ret, calls, syn, syn_calls, arg, result,
                   xorvars>>

NextNeuron == \E input_current \in NeuronInputs : NrnStep(input_current)

SpecNeuron == InitNeuron /\ [][NextNeuron]_vars

\* get_winner on the spike records of the default three output neurons, each
\* holding up to MaxSpikeCount spike times.
MaxSpikeCount == 5

InitWinner ==
    /\ NetworkInit(NInput, NHidden, NOutput, TRUE,
          [k \in 0 .. NInput * NHidden - 1 |->
              SampleDraw(WInitIHLow, WInitIHHigh, 0, k)],
          [k \in 0 .. NHidden * NOutput - 1 |->
              SampleDraw(WInitHOLow, WInitHOHigh, 0, k)])
    /\ syn = NewSynapse(0, 0, WMin, APlusDefault, AMinusDefault)
    /\ syn_calls = <<>>
    /\ nrn = NewNeuron(0, ThresholdOutput)
    /\ nrn_obs = NoCall
    /\ \E counts \in [0 .. DefaultNOutput - 1 -> 0 .. MaxSpikeCount] :
          arg = [o \in 0 .. DefaultNOutput - 1 |->
                    [k \in 1 .. counts[o] |-> (k - 1) * DT]]
    /\ result = NoCall
    /\ XorIdle

\* net.get_winner(output_spikes)
GetWinner ==
    /\ result.op = "none"
    /\ result' = [op |-> "get_winner", value |-> get_winner(arg)]
    /\ UNCHANGED <<netvars, sim, obs, ret, calls, syn, syn_calls, nrn, nrn_obs,
                   arg, xorvars>>

NextWinner == GetWinner

SpecWinner == InitWinner /\ [][NextWinner]_vars

\* The quantization of save_weights applied to one entry of a weight matrix:
\* any weight of [w_min, w_max].
\* the weights quantized: every weight of [0, 1] with four decimals, and the
\* two eight-decimal weights on either side of each rounding boundary
\* (2n + 1) / 30
QuantizeWeights ==
    {k * Half : k \in 0 .. Half}
    \cup {((2 * n + 1) * (Unit \div 2)) \div QuantScale + d :
             n \in 0 .. QuantScale - 1, d \in {0, 1}}

InitQuantize ==
    /\ NetworkInit(NInput, NHidden, NOutput, TRUE,
          [k \in 0 .. NInput * NHidden - 1 |->
              SampleDraw(WInitIHLow, WInitIHHigh, 0, k)],
          [k \in 0 .. NHidden * NOutput - 1 |->
              SampleDraw(WInitHOLow, WInitHOHigh, 0, k)])
    /\ syn = NewSynapse(0, 0, WMin, APlusDefault, AMinusDefault)
    /\ syn_calls = <<>>
    /\ nrn = NewNeuron(0, ThresholdOutput)
    /\ nrn_obs = NoCall
    /\ arg \in QuantizeWeights
    /\ result = NoCall
    /\ XorIdle

\* np.round(W * 15).astype(int) on the entry
QuantizeWeight ==
    /\ result.op = "none"
    /\ result' = [op |-> "quantize", value |-> Quantize(arg)]
    /\ UNCHANGED <<netvars, sim, obs, ret, calls, syn, syn_calls, nrn, nrn_obs,
                   arg, xorvars>>

NextQuantize == QuantizeWeight

SpecQuantize == InitQuantize /\ [][NextQuantize]_vars

\* The XOR network of model_xor.py: up to MaxXorCalls calls of simulate on
\* one SNN_XOR object, with every input pair and 0, 1 or 50 time steps.
MaxXorCalls == 3
XorInputs == {0, 1}
XorDurations == {0, 1, XorTimeSteps}

InitXor ==
    /\ NetworkInit(NInput, NHidden, NOutput, TRUE,
          [k \in 0 .. NInput * NHidden - 1 |->
              SampleDraw(WInitIHLow, WInitIHHigh, 0, k)],
          [k \in 0 .. NHidden * NOutput - 1 |->
              SampleDraw(WInitHOLow, WInitHOHigh, 0, k)])
    /\ syn = NewSynapse(0, 0, WMin, APlusDefault, AMinusDefault)
    /\ syn_calls = <<>>
    /\ OthersIdle

\* h0_current of a pass of the loop (lines 127-136)
XorHidden0Current(input_0, input_1) ==
    (IF input_0 # 0 THEN xor.w_i0_h0 ELSE 0)
    + (IF input_1 # 0 THEN xor.w_i1_h0 ELSE 0)

XorHidden1CurrentFirstInputOnly(input_0, input_1) ==
    IF input_0 # 0 THEN xor.w_i0_h1 ELSE 0

\* h1_current of a pass of the loop (lines 127-136)
XorHidden1Current(input_0, input_1) ==
    (IF input_0 # 0 THEN xor.w_i0_h1 ELSE 0)
    + (IF input_1 # 0 THEN xor.w_i1_h1 ELSE 0)

\* o_current of a pass of the loop (lines 153-158)
XorOutputCurrent(h0_spike, h1_spike) ==
    (IF h0_spike # 0 THEN xor.w_h0_o ELSE 0)
    + (IF h1_spike # 0 THEN xor.w_h1_o ELSE 0)

\* SNN_XOR.simulate up to the loop: the three resets and the empty record
XorSimulateBegin(input_0, input_1, time_steps) ==
    /\ xsim.pc = "idle"
    /\ Len(xret) < MaxXorCalls
    /\ xor' = [xor EXCEPT !.hidden_0 = XorNeuronReset(@),
                          !.hidden_1 = XorNeuronReset(@),
                          !.output = XorNeuronReset(@)]
    /\ xsim' = [pc |-> "loop", input_0 |-> input_0, input_1 |-> input_1,
                time_steps |-> time_steps, t |-> 0, output_spikes |-> <<>>,
                points |-> <<>>]
    /\ UNCHANGED <<netvars, sim, obs, ret, calls, syn, syn_calls, nrn, nrn_obs,
                   arg, result, xret>>

\* the three potentials, as one point of a pass
XorPotentials(h0, h1, o) ==
    [hidden_0 |-> h0.potential, hidden_1 |-> h1.potential, output |-> o.potential]

\* one pass of the loop of SNN_XOR.simulate (lines 125-162); points holds the
\* currents and flags of the pass and the potentials after each step call
\* and each lateral-inhibition test, in the order the code makes them
XorSimulateStep ==
    /\ xsim.pc = "loop"
    /\ xsim.t < xsim.time_steps
    /\ LET h0_current == XorHidden0Current(xsim.input_0, xsim.input_1)
           h1_current == XorHidden1Current(xsim.input_0, xsim.input_1)
           h0_spike == XorSpike(xor.hidden_0, h0_current)
           h0a == XorNeuronStep(xor.hidden_0, h0_current, xsim.t)
           h1_spike == XorSpike(xor.hidden_1, h1_current)
           h1a == XorNeuronStep(xor.hidden_1, h1_current, xsim.t)
           h1b == IF h0_spike # 0 THEN XorInhibit(h1a, xor.w_h0_h1) ELSE h1a
           h0b == IF h1_spike # 0 THEN XorInhibit(h0a, xor.w_h1_h0) ELSE h0a
           o_current == XorOutputCurrent(h0_spike, h1_spike)
           o_spike == XorSpike(xor.output, o_current)
           oa == XorNeuronStep(xor.output, o_current, xsim.t)
       IN /\ xor' = [xor EXCEPT !.hidden_0 = h0b, !.hidden_1 = h1b, !.output = oa]
          /\ xsim' = [xsim EXCEPT
                        !.t = @ + 1,
                        !.output_spikes = Append(@, o_spike),
                        !.points =
                            [h0_current |-> h0_current, h1_current |-> h1_current,
                             h0_spike |-> h0_spike, h1_spike |-> h1_spike,
                             o_spike |-> o_spike,
                             after |-> <<XorPotentials(h0a, xor.hidden_1, xor.output),
                                         XorPotentials(h0a, h1a, xor.output),
                                         XorPotentials(h0a, h1b, xor.output),
                                         XorPotentials(h0b, h1b, xor.output),
                                         XorPotentials(h0b, h1b, oa)>>]]
    /\ UNCHANGED <<netvars, sim, obs, ret, calls, syn, syn_calls, nrn, nrn_obs,
                   arg, result, xret>>

\* the return of SNN_XOR.simulate: total_output_spikes > 0
XorSimulateReturn ==
    /\ xsim.pc = "loop"
    /\ xsim.t = xsim.time_steps
    /\ xret' = Append(xret,
                      [input_0 |-> xsim.input_0, input_1 |-> xsim.input_1,
                       time_steps |-> xsim.time_steps,
                       value |-> SumTo([k \in 0 .. Len(xsim.output_spikes) - 1 |->
                                           xsim.output_spikes[k + 1]],
                                       Len(xsim.output_spikes)) > 0,
                       output_spikes |-> xsim.output_spikes,
                       spike_history |-> [hidden_0 |-> xor.hidden_0.spike_history,
                                          hidden_1 |-> xor.hidden_1.spike_history,
                                          output |-> xor.output.spike_history]])
    /\ xsim' = IdleFrame
    /\ UNCHANGED <<netvars, sim, obs, ret, calls, syn, syn_calls, nrn, nrn_obs,
                   arg, result, xor>>

NextXor ==
    \/ \E input_0 \in XorInputs, input_1 \in XorInputs, time_steps \in XorDurations :
          XorSimulateBegin(input_0, input_1, time_steps)
    \/ XorSimulateStep
    \/ XorSimulateReturn

SpecXor == InitXor /\ [][NextXor]_vars

\* ------------------------------------------------------------ claims
InBounds(s) == s.w_min <= s.w /\ s.w <= s.w_max

\* a step of a presentation has run, and obs holds its local values
Stepped == obs.step >= 0

\* C1: after every update_traces call, whatever the two spike flags and the
\* calls before it, the weight of a synapse built with a weight in
\* [w_min, w_max] lies in [w_min, w_max].
C1_WeightInBounds == InBounds(syn)

\* C1 witness: a synapse built at 0.99 has been potentiated twice in a row
\* (both flags set), which carries the unclipped weight above w_max.
C1_Witness ==
    /\ syn.w_history[1] = 99000000
    /\ Len(syn_calls) >= 2
    /\ \A k \in 1 .. Len(syn_calls) : syn_calls[k] = <<TRUE, TRUE>>
    /\ syn.w = syn.w_max

\* C2: every input->hidden and hidden->output weight lies in [w_min, w_max]
\* in every state: before every step (where the hidden and output phases read
\* the weights), after every step, the supervised increments included, and
\* wherever get_weights_matrix reads them.
C2_NetworkWeightsInBounds ==
    /\ \A k \in DOMAIN synapses_ih : InBounds(synapses_ih[k])
    /\ \A k \in DOMAIN synapses_ho : InBounds(synapses_ho[k])

\* C2 witness: a supervised step whose hidden neuron h spiked has punished the
\* synapse to an incorrect output down to w_min, and an input->hidden synapse
\* sits at w_max.
C2_Witness ==
    /\ Stepped
    /\ obs.enabled /\ obs.label.given
    /\ \E h \in 0 .. n_hidden - 1, o \in 0 .. n_output - 1 :
          /\ o # obs.label.value
          /\ obs.hid_flags[h]
          /\ synapses_ho[h * n_output + o].w = WMin
    /\ \E k \in DOMAIN synapses_ih : synapses_ih[k].w = WMax

\* the spike records of the running call, or of the call that returned last
HiddenRecord == IF sim.pc = "loop" THEN sim.hidden_spikes ELSE ret.value[1]
OutputRecord == IF sim.pc = "loop" THEN sim.output_spikes ELSE ret.value[2]
HasRecords ==
    sim.pc = "loop" \/ (ret.op = "simulate_pattern" /\ ret.error = "none")

\* C3 as stated: in the end-to-end presentation (all weights 0, no input
\* spike, label 0, 200 ms) no hidden and no output neuron ever spikes.
C3_NoSpikeAtAll ==
    HasRecords =>
        /\ \A h \in DOMAIN HiddenRecord : HiddenRecord[h] = <<>>
        /\ \A o \in DOMAIN OutputRecord : OutputRecord[o] = <<>>

\* C3 amended: in that presentation, whether the network was built with
\* stdp_enabled true or false, no hidden neuron spikes and no output neuron
\* other than the labelled neuron 0 spikes.
C3_OnlyLabelledOutputSpikes ==
    HasRecords =>
        /\ \A h \in DOMAIN HiddenRecord : HiddenRecord[h] = <<>>
        /\ \A o \in DOMAIN OutputRecord : o # 0 => OutputRecord[o] = <<>>

\* C3 witness: the presentation has run its 200 steps and returned, every
\* record but that of output neuron 0 is empty, and the teaching bias alone
\* has made output neuron 0 spike.
C3_Witness ==
    /\ ret.op = "simulate_pattern" /\ ret.error = "none"
    /\ \A h \in DOMAIN ret.value[1] : ret.value[1][h] = <<>>
    /\ \A o \in DOMAIN ret.value[2] : o # 0 => ret.value[2][o] = <<>>
    /\ obs.step = DefaultDuration - 1
    /\ Len(ret.value[2][0]) > 0
    /\ \A k \in DOMAIN synapses_ih : synapses_ih[k].w = 0

\* the update_traces calls a step makes on hidden->output synapse k when it
\* calls once with the step's flags
OneHOCall(k) ==
    <<<<obs.hid_flags[k \div n_output], obs.out_flags[k % n_output]>>>>

\* C4: in every step taken with stdp_enabled true, update_traces is called
\* exactly once, with the step's hidden and output flags, on every
\* hidden->output synapse, whatever the label and the output index.
C4_CalledForEveryPair ==
    (Stepped /\ obs.enabled) =>
        \A k \in DOMAIN obs.ho_calls : obs.ho_calls[k] = OneHOCall(k)

\* what a step added to the net current of output neuron o after the lateral
\* inhibition
Bias(o) == obs.net[o] - obs.inhibited[o]

\* C5 as stated: in every step of a presentation with a label the net current
\* of the labelled output is raised by 0.5 and that of every other output
\* lowered by 0.4; without a label nothing is added.
C5_BiasWheneverLabelled ==
    Stepped =>
        \A o \in DOMAIN obs.net :
            Bias(o) = IF obs.label.given
                      THEN IF o = obs.label.value THEN TeachBoost ELSE -TeachSuppress
                      ELSE 0

\* C5 amended: the bias is added in the steps of a presentation with a label
\* while stdp_enabled is true; without a label, or with stdp_enabled false,
\* nothing is added.
C5_BiasWhenLabelledAndEnabled ==
    Stepped =>
        \A o \in DOMAIN obs.net :
            Bias(o) = IF obs.label.given /\ obs.enabled
                      THEN IF o = obs.label.value THEN TeachBoost ELSE -TeachSuppress
                      ELSE 0

\* C5 witness: a step of a labelled presentation run with stdp_enabled false,
\* some hidden neuron spiking, in which no output got a bias.
C5_Witness ==
    /\ Stepped /\ obs.label.given /\ ~obs.enabled
    /\ obs.label.value \in 0 .. n_output - 1
    /\ \E h \in DOMAIN obs.hid_flags : obs.hid_flags[h]
    /\ \A o \in DOMAIN obs.net : Bias(o) = 0

\* the update_traces calls a step makes on input->hidden synapse k when it
\* calls once with the step's flags
OneIHCall(k) ==
    <<<<obs.in_flags[k \div n_hidden], obs.hid_flags[k % n_hidden]>>>>

\* C6 as stated: in every step update_traces is called on every
\* input->hidden synapse with the step's flags, whatever the label and the
\* settings of the network.
C6_AlwaysActive ==
    Stepped => \A k \in DOMAIN obs.ih_calls : obs.ih_calls[k] = OneIHCall(k)

\* C6 amended: the call is made, once per synapse and whatever the label, in
\* every step run with stdp_enabled true, and in no step run with it false.
C6_ActiveWhenEnabled ==
    Stepped =>
        \A k \in DOMAIN obs.ih_calls :
            obs.ih_calls[k] = IF obs.enabled THEN OneIHCall(k) ELSE <<>>

\* C6 witness: a step run with stdp_enabled false in which an input and a
\* hidden neuron spiked and no input->hidden synapse was updated.
C6_Witness ==
    /\ Stepped /\ ~obs.enabled
    /\ \E i \in DOMAIN obs.in_flags : obs.in_flags[i]
    /\ \E h \in DOMAIN obs.hid_flags : obs.hid_flags[h]
    /\ \A k \in DOMAIN obs.ih_calls : obs.ih_calls[k] = <<>>

\* C7: a call whose pattern is not n_input long fails before its first
\* simulation step: it never completes a step of its loop.
C7_LengthMismatchFailsFast ==
    (sim.pc = "loop" /\ Len(sim.pattern) # n_input) => sim.step = 0

\* C8: no step of a presentation runs with a label outside [0, n_output).
C8_LabelOutOfRangeFailsFast ==
    (Stepped /\ obs.label.given) => obs.label.value \in 0 .. n_output - 1

\* C9: a get_weights_matrix call with a layer name other than "input_hidden"
\* and "hidden_output" raises "Unknown layer" and returns no matrix, and a
\* call, raising or not, changes no neuron and no synapse.
C9_UnknownLayer ==
    [][(ret' # ret /\ ret'.op = "get_weights_matrix") =>
          /\ UNCHANGED netvars
          /\ IF ret'.layer \in {"input_hidden", "hidden_output"}
             THEN ret'.error = "none"
             ELSE ret'.error = "ValueError: Unknown layer" /\ ret'.value = <<>>]_vars

\* C9 witness: after a presentation that changed the weights, a call with the
\* name "output_hidden" has raised.
C9_Witness ==
    /\ ret.op = "get_weights_matrix" /\ ret.layer = "output_hidden"
    /\ ret.error = "ValueError: Unknown layer"
    /\ Stepped /\ obs.enabled
    /\ \E h \in DOMAIN obs.hid_flags : obs.hid_flags[h]

IsReset(n) ==
    /\ n.v = n.v_rest /\ n.i_syn = 0
    /\ n.spike_times = <<>> /\ n.v_history = <<>> /\ n.spike_history = <<>>

\* C10: reset() puts v at v_rest, i_syn at 0 and empties the histories of
\* every neuron of the three layers, and changes no synapse; no call made
\* between two presentations changes a synapse, so the traces one presentation
\* leaves are those the first step of the next one starts from.
C10_ResetKeepsSynapses ==
    [][/\ Reset =>
            /\ \A i \in DOMAIN input_neurons' : IsReset(input_neurons'[i])
            /\ \A h \in DOMAIN hidden_neurons' : IsReset(hidden_neurons'[h])
            /\ \A o \in DOMAIN output_neurons' : IsReset(output_neurons'[o])
       /\ sim.pc = "idle" => UNCHANGED <<synapses_ih, synapses_ho>>]_vars

\* C10 witness: the second presentation is about to run its first step right
\* after a reset(): the neurons are reset and the traces of the first
\* presentation are still there.
C10_Witness ==
    /\ calls = 2 /\ sim.pc = "loop" /\ sim.step = 0 /\ sim.n_steps > 0
    /\ obs.step = ShortDuration - 1
    /\ \A h \in DOMAIN hidden_neurons : IsReset(hidden_neurons[h])
    /\ \E k \in DOMAIN synapses_ih : synapses_ih[k].pre_trace > 0

\* a step call has been made on the neuron, and nrn_obs holds the call
NrnStepped == nrn_obs.op = "step"

\* the potential the last step call computed before its threshold test
NrnPotential ==
    nrn_obs.pre.v
    + RDiv(-(nrn_obs.pre.v - nrn_obs.pre.v_rest) + nrn.i_syn, nrn_obs.pre.tau_m) * DT

\* C11: step returns true exactly when the potential after the current and
\* membrane updates (the potential the test reads, which is the computed one
\* up to the rounding of the arithmetic) is at least the threshold; then v is
\* v_reset when step
\* returns and the value appended to the potential history is v_reset; when
\* step returns false, v is the updated potential and is below the threshold.
C11_SpikeIffThreshold ==
    NrnStepped =>
        /\ Abs(nrn_obs.tested - NrnPotential) <= RoundingError
        /\ nrn_obs.spiked <=> nrn_obs.tested >= nrn.threshold
        /\ Len(nrn.v_history) = Len(nrn_obs.pre.v_history) + 1
        /\ Last(nrn.v_history) = nrn.v
        /\ Last(nrn.spike_history) = IF nrn_obs.spiked THEN 1 ELSE 0
        /\ nrn_obs.spiked => nrn.v = nrn.v_reset
        /\ ~nrn_obs.spiked => nrn.v = nrn_obs.tested /\ nrn.v < nrn.threshold

\* C11 witness: a step whose updated potential is exactly the threshold has
\* returned true and left v at v_reset.
C11_Witness ==
    /\ NrnStepped
    /\ NrnPotential = nrn.threshold
    /\ nrn_obs.tested = nrn.threshold
    /\ nrn_obs.spiked
    /\ nrn.v = nrn.v_reset
    /\ Len(nrn.spike_times) = Len(nrn_obs.pre.spike_times) + 1

C13_WinnerIsFirstMaximum ==
    result.op = "get_winner" =>
        /\ result.value \in DOMAIN arg
        /\ \A o \in DOMAIN arg : Len(arg[o]) <= Len(arg[result.value])
        /\ \A o \in DOMAIN arg :
              o < result.value => Len(arg[o]) < Len(arg[result.value])
        /\ (Len(arg[0]) = 2 /\ Len(arg[1]) = 5 /\ Len(arg[2]) = 5)
              => result.value = 1
        /\ (\A o \in DOMAIN arg : Len(arg[o]) = 0) => result.value = 0

\* C13 witness: get_winner has returned 1 for the counts [2,5,5].
C13_Witness ==
    /\ result.op = "get_winner"
    /\ Len(arg[0]) = 2 /\ Len(arg[1]) = 5 /\ Len(arg[2]) = 5
    /\ result.value = 1

\* the step obs describes is the last one the running presentation made
InLoopAfterStep == sim.pc = "loop" /\ sim.step > 0 /\ obs.step = sim.step - 1

\* hidden neuron h recorded a spike in the step it made last
SpikedLast(h) == Last(hidden_neurons[h].spike_history) = 1

\* C14: in every step the raw current of each output neuron is the sum of
\* the weights, as they were when the step began, of exactly the
\* hidden->output synapses whose hidden neuron spiked in that same step: the
\* spikes the hidden neurons recorded in the step they made last, and no
\* spike of an earlier step.
C14_SameStepTransmission ==
    InLoopAfterStep =>
        /\ \A h \in 0 .. n_hidden - 1 : obs.hid_flags[h] <=> SpikedLast(h)
        /\ \A o \in 0 .. n_output - 1 :
              obs.raw[o] =
                  SumTo([h \in 0 .. n_hidden - 1 |->
                            IF SpikedLast(h) THEN obs.w_ho[h * n_output + o] ELSE 0],
                        n_hidden)

\* C14 witness: a hidden neuron that had not spiked in the step before spiked
\* in this step and its weight is in the raw current of an output neuron,
\* while another hidden neuron did not spike and contributes nothing.
C14_Witness ==
    /\ InLoopAfterStep /\ sim.step > 1
    /\ \E h \in 0 .. n_hidden - 1, g \in 0 .. n_hidden - 1, o \in 0 .. n_output - 1 :
          /\ SpikedLast(h) /\ ~SpikedLast(g)
          /\ hidden_neurons[h].spike_history[sim.step - 1] = 0
          /\ obs.w_ho[h * n_output + o] > 0
          /\ obs.w_ho[g * n_output + o] > 0
          /\ obs.raw[o] = obs.w_ho[h * n_output + o]

\* C15: in every step the current of output neuron o before any teaching
\* bias is raw[o] minus 0.1 times raw[j] for every other output j whose raw
\* current is positive, raw being the currents of C14, computed from the
\* hidden spikes alone before any output neuron is advanced.
C15_LateralInhibition ==
    Stepped =>
        \A o \in 0 .. n_output - 1 :
            obs.inhibited[o] =
                obs.raw[o]
                - SumTo([j \in 0 .. n_output - 1 |->
                            IF j # o /\ obs.raw[j] > 0
                            THEN Mul(obs.raw[j], LateralInhibition) ELSE 0],
                        n_output)

\* C15 witness: a step in which two output neurons had a positive raw
\* current, so that each was inhibited by the other and by nothing else.
C15_Witness ==
    /\ Stepped
    /\ \E o \in 0 .. n_output - 1, j \in 0 .. n_output - 1 :
          /\ o # j /\ obs.raw[o] > 0 /\ obs.raw[j] > 0
          /\ obs.inhibited[o] < obs.raw[o]
          /\ obs.inhibited[o] > obs.raw[o] - obs.raw[j]

\* the call in progress makes one pass of its loop or, at step
\* int(duration / dt) and not before, returns: a pass advances the step by
\* one and every hidden and output neuron by one entry of its potential
\* history, and the return advances none
RunsItsSteps ==
    /\ sim.n_steps * DT * PerMs <= sim.duration
    /\ sim.duration < (sim.n_steps + 1) * DT * PerMs
    /\ \/ /\ sim.step < sim.n_steps
          /\ sim'.pc = "loop"
          /\ sim'.step = sim.step + 1
          /\ sim'.n_steps = sim.n_steps
          /\ \A h \in DOMAIN hidden_neurons :
                Len(hidden_neurons'[h].v_history)
                    = Len(hidden_neurons[h].v_history) + 1
          /\ \A o \in DOMAIN output_neurons :
                Len(output_neurons'[o].v_history)
                    = Len(output_neurons[o].v_history) + 1
       \/ /\ sim.step = sim.n_steps
          /\ sim'.pc = "idle"
          /\ ret'.op = "simulate_pattern" /\ ret'.error = "none"
          /\ UNCHANGED <<hidden_neurons, output_neurons>>

\* C16 as stated: every call of simulate_pattern starts at step 0, makes
\* int(duration / dt) passes of its loop, each advancing every hidden and
\* output neuron by one entry of its potential history, and then returns.
C16_EveryCallRunsItsSteps ==
    [][/\ (sim.pc = "idle" /\ sim'.pc = "loop") => sim'.step = 0
       /\ sim.pc = "loop" => RunsItsSteps]_vars

\* C16 amended: a call whose pattern has an entry for every input neuron
\* starts at step 0, makes int(duration / dt) passes of its loop, each
\* advancing every hidden and output neuron by one entry of its potential
\* history, and then returns; a call whose pattern is shorter advances no
\* neuron: it raises KeyError in its first pass when int(duration / dt) > 0
\* and returns at once when int(duration / dt) = 0.
C16_ExactlyNSteps ==
    [][/\ (sim.pc = "idle" /\ sim'.pc = "loop") => sim'.step = 0
       /\ (sim.pc = "loop" /\ Len(sim.pattern) >= n_input) => RunsItsSteps
       /\ (sim.pc = "loop" /\ Len(sim.pattern) < n_input) =>
             /\ sim.step = 0
             /\ sim'.pc = "idle"
             /\ ret'.op = "simulate_pattern"
             /\ ret'.error = IF sim.n_steps > 0 THEN "KeyError" ELSE "none"
             /\ UNCHANGED <<hidden_neurons, output_neurons>>]_vars

\* C16 witness: a presentation of two and a half milliseconds has made its
\* int(2.5 / 1.0) = ShortDuration passes and is about to return, every hidden
\* and output neuron holding exactly that many potentials.
C16_Witness ==
    /\ sim.pc = "loop"
    /\ sim.duration = ShortDuration * PerMs + 1
    /\ Len(sim.pattern) >= n_input
    /\ sim.step = ShortDuration /\ sim.step = sim.n_steps
    /\ \A h \in DOMAIN hidden_neurons :
          Len(hidden_neurons[h].v_history) = ShortDuration
    /\ \A o \in DOMAIN output_neurons :
          Len(output_neurons[o].v_history) = ShortDuration

\* C18: the two traces of a synapse built with A_plus >= 0 and A_minus >= 0
\* are never negative, after any sequence of update_traces and apply_stdp
\* calls.
C18_TracesNonNegative ==
    (syn.A_plus >= 0 /\ syn.A_minus >= 0) =>
        syn.pre_trace >= 0 /\ syn.post_trace >= 0

\* C18 witness: after calls of both kinds, the last one an update_traces
\* call without spikes, both traces are positive and below their increment:
\* they have been raised and have decayed.
C18_Witness ==
    /\ Len(syn_calls) >= 3
    /\ \E k \in 1 .. Len(syn_calls) : Len(syn_calls[k]) = 3
    /\ Last(syn_calls) = <<FALSE, FALSE>>
    /\ syn.pre_trace > 0 /\ syn.pre_trace < syn.A_plus
    /\ syn.post_trace > 0 /\ syn.post_trace < syn.A_minus

\* the synapses of a list that join source s to target t
Joining(synapses, s, t) ==
    {k \in DOMAIN synapses : synapses[k].pre_id = s /\ synapses[k].post_id = t}

\* the list holds n_source * n_target synapses, and the one synapse that
\* joins s to t is at index s * n_target + t
Dense(synapses, n_source, n_target) ==
    /\ DOMAIN synapses = 0 .. n_source * n_target - 1
    /\ \A s \in 0 .. n_source - 1, t \in 0 .. n_target - 1 :
          Joining(synapses, s, t) = {s * n_target + t}

\* the matrix has one entry per pair, the current weight of its synapse
MatrixOf(matrix, synapses, n_source, n_target) ==
    /\ DOMAIN matrix = 0 .. n_source - 1
    /\ \A s \in 0 .. n_source - 1 :
          /\ DOMAIN matrix[s] = 0 .. n_target - 1
          /\ \A t \in 0 .. n_target - 1 :
                \A k \in Joining(synapses, s, t) : matrix[s][t] = synapses[k].w

\* C19: after construction and after any sequence of operations both lists
\* are dense, n_input * n_hidden and n_hidden * n_output long, with the one
\* synapse of pre_id s and post_id t at index s * n_target + t, and entry
\* (s, t) of the matrix get_weights_matrix returns is the current weight of
\* that synapse.
C19_DenseStableIndex ==
    /\ Dense(synapses_ih, n_input, n_hidden)
    /\ Dense(synapses_ho, n_hidden, n_output)
    /\ (ret.op = "get_weights_matrix" /\ ret.error = "none") =>
          IF ret.layer = "input_hidden"
          THEN MatrixOf(ret.value, synapses_ih, n_input, n_hidden)
          ELSE MatrixOf(ret.value, synapses_ho, n_hidden, n_output)

\* C19 witness: after a presentation whose steps changed hidden->output
\* weights by different amounts, get_weights_matrix('hidden_output') has
\* returned the changed weights.
C19_Witness ==
    /\ ret.op = "get_weights_matrix" /\ ret.error = "none"
    /\ ret.layer = "hidden_output"
    /\ Stepped
    /\ \E j \in DOMAIN synapses_ho, k \in DOMAIN synapses_ho :
          /\ synapses_ho[j].w > synapses_ho[j].w_history[1]
          /\ synapses_ho[k].w < synapses_ho[k].w_history[1]
          /\ ret.value[synapses_ho[j].pre_id][synapses_ho[j].post_id]
                = synapses_ho[j].w
          /\ ret.value[synapses_ho[k].pre_id][synapses_ho[k].post_id]
                = synapses_ho[k].w

\* C20: for every weight w of [0, 1] the quantized value round(w * 15) is an
\* integer of [0, 15], 1.0 gives 15, 0.0 gives 0, and the quantized value
\* divided by 15 differs from w by at most 1/15.
C20_QuantizeRoundTrip ==
    result.op = "quantize" =>
        /\ result.value \in 0 .. 15
        /\ arg = Unit => result.value = 15
        /\ arg = 0 => result.value = 0
        /\ Abs(result.value * Unit - 15 * arg) <= Unit

\* C20 witness: the weight 1.0 has been quantized to 15.
C20_Witness ==
    /\ result.op = "quantize"
    /\ arg = WMax /\ WMax = Unit
    /\ result.value = 15

\* the XOR of two inputs of {0, 1}
XorOf(a, b) == IF a # b THEN 1 ELSE 0

\* C21: every call simulate(i0, i1, time_steps = 50) returns True exactly
\* when i0 XOR i1 = 1: False for (0,0) and (1,1), True for (0,1) and (1,0).
C21_ComputesXor ==
    \A k \in 1 .. Len(xret) :
        xret[k].time_steps = XorTimeSteps =>
            (xret[k].value <=> XorOf(xret[k].input_0, xret[k].input_1) = 1)

\* a pass of the loop of SNN_XOR.simulate has just been made
XorStepped == xsim.pc = "loop" /\ xsim.t > 0

XorNeuronNames == {"hidden_0", "hidden_1", "output"}

\* C28: after every step call and every lateral-inhibition adjustment of a
\* pass, each of the three potentials is in 0 .. threshold - 1, and a neuron
\* that spiked has potential 0 right after its own step call.
C28_PotentialBelowThreshold ==
    XorStepped =>
        /\ \A p \in 1 .. Len(xsim.points.after) : \A name \in XorNeuronNames :
              /\ 0 <= xsim.points.after[p][name]
              /\ xsim.points.after[p][name] < xor[name].threshold
        /\ xsim.points.h0_spike = 1 => xsim.points.after[1].hidden_0 = 0
        /\ xsim.points.h1_spike = 1 => xsim.points.after[2].hidden_1 = 0
        /\ xsim.points.o_spike = 1 => xsim.points.after[5].output = 0

\* a pass in which both hidden neurons and the output neuron spiked
C28_Witness ==
    /\ XorStepped
    /\ xsim.points.h0_spike = 1
    /\ xsim.points.h1_spike = 1
    /\ xsim.points.o_spike = 1
    /\ xsim.t > 1

\* two returned calls were made with the same arguments
XorSameCall(j, k) ==
    /\ xret[j].input_0 = xret[k].input_0
    /\ xret[j].input_1 = xret[k].input_1
    /\ xret[j].time_steps = xret[k].time_steps

\* C29: a simulate call returns the same value and the same per-step spike
\* sequence (the output_spikes list and the spike steps each neuron records)
\* whatever calls were made before it on the object, the first call of a
\* behaviour being the call on a freshly constructed object.
C29_HistoryIndependent ==
    \A j \in 1 .. Len(xret) : \A k \in 1 .. Len(xret) :
        XorSameCall(j, k) =>
            /\ xret[j].value = xret[k].value
            /\ xret[j].output_spikes = xret[k].output_spikes
            /\ xret[j].spike_history = xret[k].spike_history

\* a spiking call repeated after a different call in between
C29_Witness ==
    /\ Len(xret) = 3
    /\ XorSameCall(1, 3)
    /\ ~XorSameCall(1, 2)
    /\ xret[1].value
    /\ xret[2].time_steps > 0
    /\ xret[3].time_steps = XorTimeSteps

\* C30: in every pass hidden_0 and hidden_1 receive the same current, spike
\* together and end the pass with the same potential, and their recorded
\* spike steps are the same.
C30_HiddenLockStep ==
    XorStepped =>
        /\ xsim.points.h0_current = xsim.points.h1_current
        /\ xsim.points.h0_spike = xsim.points.h1_spike
        /\ xor.hidden_0.potential = xor.hidden_1.potential
        /\ xor.hidden_0.spike_history = xor.hidden_1.spike_history

\* a pass with exactly one active input in which both hidden neurons spiked
C30_Witness ==
    /\ XorStepped
    /\ xsim.input_0 # xsim.input_1
    /\ xsim.points.h0_spike = 1
    /\ xsim.points.h1_spike = 1
    /\ Len(xor.hidden_1.spike_history) = xsim.t

\* C22: step first replaces i_syn by (i_syn + input_current) * exp(-dt/tau_s),
\* the input of the step being attenuated with the rest; the potential it
\* tests against the threshold is v + dt * (-(v - v_rest) + i_syn) / tau_m
\* with the new i_syn, up to the rounding of the arithmetic; and a spike
\* leaves the new i_syn in place.
C22_CurrentThenPotentialThenTest ==
    NrnStepped =>
        /\ nrn.i_syn = Mul(nrn_obs.pre.i_syn + nrn_obs.input_current, ExpTau5)
        /\ Abs(nrn_obs.tested
               - (nrn_obs.pre.v
                  + RDiv(nrn_obs.pre.v_rest - nrn_obs.pre.v
                         + Mul(nrn_obs.pre.i_syn + nrn_obs.input_current, ExpTau5),
                         TauM) * DT)) <= RoundingError
        /\ nrn_obs.spiked <=> nrn_obs.tested >= nrn.threshold
        /\ ~nrn_obs.spiked => nrn.v = nrn_obs.tested

\* C22 witness: a step with a non-zero input on a neuron that held a
\* current spiked and left the attenuated sum as the current, where testing
\* the threshold with the current before the step would not have spiked.
C22_Witness ==
    /\ NrnStepped
    /\ nrn_obs.spiked
    /\ nrn_obs.input_current > 0
    /\ nrn_obs.pre.i_syn > 0
    /\ nrn.i_syn > 0
    /\ nrn.i_syn < nrn_obs.pre.i_syn + nrn_obs.input_current
    /\ nrn_obs.pre.v
       + RDiv(nrn_obs.pre.v_rest - nrn_obs.pre.v + nrn_obs.pre.i_syn, TauM) * DT
       < nrn.threshold

\* the step is a call of update_traces with both spike flags true
BothSpikesCall ==
    /\ Len(syn_calls') = Len(syn_calls) + 1
    /\ Last(syn_calls') = <<TRUE, TRUE>>

\* C23: an update_traces call with both flags true changes the weight by
\* (decayed pre_trace + A_plus) - (decayed post_trace), clipped once into
\* [w_min, w_max]: the depression uses the post_trace before A_minus is
\* added, the potentiation the pre_trace after A_plus is added.
C23_DecayPrePostClip ==
    [][BothSpikesCall =>
          /\ syn'.pre_trace = Mul(syn.pre_trace, ExpTau20) + syn.A_plus
          /\ syn'.post_trace = Mul(syn.post_trace, ExpTau20) + syn.A_minus
          /\ syn'.w = Clip(syn.w + (Mul(syn.pre_trace, ExpTau20) + syn.A_plus)
                                 - Mul(syn.post_trace, ExpTau20),
                           syn.w_min, syn.w_max)]_vars

\* C23 witness: a call with both flags true on a synapse whose traces were
\* both positive has left the weight strictly inside its bounds.
C23_Witness ==
    /\ Len(syn_calls) >= 2
    /\ Last(syn_calls) = <<TRUE, TRUE>>
    /\ syn.pre_trace > syn.A_plus
    /\ syn.post_trace > syn.A_minus
    /\ syn.w > syn.w_min /\ syn.w < syn.w_max
    /\ syn.w \notin SynapseInitWeights

\* the step is a call of apply_stdp
ApplyStdpCall ==
    /\ Len(syn_calls') = Len(syn_calls) + 1
    /\ Len(Last(syn_calls')) = 3

\* the calls a pass of simulate_pattern made on the synapses of the network
PassCalls ==
    UNION {{obs'.ih_calls[k][c] : c \in DOMAIN obs'.ih_calls[k]} :
              k \in DOMAIN obs'.ih_calls}
    \cup UNION {{obs'.ho_calls[k][c] : c \in DOMAIN obs'.ho_calls[k]} :
                    k \in DOMAIN obs'.ho_calls}

\* C26: apply_stdp(t_pre, t_post) does not lower the weight when
\* t_post > t_pre, does not raise it when t_post < t_pre, keeps it when the
\* times are equal, leaves it in [w_min, w_max] and leaves both traces as
\* they were; and no pass of simulate_pattern invokes it: every call a pass
\* makes on a synapse is update_traces(dt, pre_spike, post_spike), and every
\* input->hidden synapse comes out of the pass as that one call leaves it or,
\* with stdp_enabled false, untouched.
C26_ApplyStdpBySignOfDelay ==
    [][/\ ApplyStdpCall =>
             LET delta_t == Last(syn_calls')[3] - Last(syn_calls')[2]
             IN /\ delta_t > 0 => syn'.w >= syn.w
                /\ delta_t < 0 => syn'.w <= syn.w
                /\ delta_t = 0 => syn'.w = syn.w
                /\ syn'.w >= syn.w_min /\ syn'.w <= syn.w_max
                /\ syn'.pre_trace = syn.pre_trace
                /\ syn'.post_trace = syn.post_trace
       /\ (sim.pc = "loop" /\ sim'.pc = "loop") =>
             /\ PassCalls \subseteq BOOLEAN \X BOOLEAN
             /\ UNCHANGED <<syn, syn_calls>>
             /\ \A k \in DOMAIN synapses_ih :
                   synapses_ih'[k]
                       = IF obs'.ih_calls[k] = <<>>
                         THEN synapses_ih[k]
                         ELSE update_traces(synapses_ih[k], DT,
                                            obs'.ih_calls[k][1][1],
                                            obs'.ih_calls[k][1][2])]_vars

\* C26 witness: a depressing call followed by a potentiating call, on a
\* synapse with positive traces, has left a weight strictly inside the bounds
\* that is not the weight the synapse was built with.
C26_Witness ==
    /\ Len(syn_calls) = 3
    /\ syn_calls[1] = <<TRUE, TRUE>>
    /\ syn_calls[2] = <<"apply_stdp", 3, 0>>
    /\ syn_calls[3] = <<"apply_stdp", 0, 3>>
    /\ syn.pre_trace > 0 /\ syn.post_trace > 0
    /\ syn.w > syn.w_min /\ syn.w < syn.w_max
    /\ syn.w \notin SynapseInitWeights

\* C25: a hidden or output neuron that spikes at step k of a presentation
\* appends k * dt to its spike_times and stores it in last_spike_time, the
\* value the network appends to the spike record of the presentation, with
\* or without reset() between presentations.
C25_SpikeTimeIsPresentationTime ==
    InLoopAfterStep =>
        /\ \A h \in 0 .. n_hidden - 1 :
              obs.hid_flags[h] =>
                  /\ Last(sim.hidden_spikes[h]) = obs.step * DT
                  /\ Last(hidden_neurons[h].spike_times) = obs.step * DT
                  /\ hidden_neurons[h].last_spike_time = obs.step * DT
        /\ \A o \in 0 .. n_output - 1 :
              obs.out_flags[o] =>
                  /\ Last(sim.output_spikes[o]) = obs.step * DT
                  /\ Last(output_neurons[o].spike_times) = obs.step * DT
                  /\ output_neurons[o].last_spike_time = obs.step * DT

\* the step belongs to a simulate_pattern call made with stdp_enabled false
\* and no label: its entry, one of its passes, or its return
InferenceCallStep ==
    /\ ~stdp_enabled
    /\ \/ sim.pc = "loop" /\ ~sim.label.given
       \/ sim'.pc = "loop" /\ ~sim'.label.given

\* C27: no step of a simulate_pattern call made with stdp_enabled false and
\* no label changes a synapse: weights, traces and every other field of the
\* synapses stay as they were, and so does stdp_enabled.
C27_InferenceLeavesSynapses ==
    [][InferenceCallStep =>
          UNCHANGED <<synapses_ih, synapses_ho, stdp_enabled>>]_vars

\* C27 witness: in a second presentation, made without label and with
\* stdp_enabled false on synapses whose traces an earlier presentation
\* raised, a pass in which an input and a hidden neuron spiked made no
\* update_traces call.
C27_Witness ==
    /\ InLoopAfterStep
    /\ calls = 2
    /\ ~stdp_enabled /\ ~sim.label.given
    /\ \E k \in DOMAIN synapses_ih :
          /\ synapses_ih[k].pre_trace > 0
          /\ synapses_ih[k].post_trace > 0
          /\ obs.in_flags[k \div n_hidden]
          /\ obs.hid_flags[k % n_hidden]
          /\ obs.ih_calls[k] = <<>>
    /\ \E k \in DOMAIN synapses_ho :
          /\ synapses_ho[k].pre_trace > 0
          /\ obs.hid_flags[k \div n_output]
          /\ obs.ho_calls[k] = <<>>

\* a pass of the loop of simulate_pattern is being made
PassTaken == sim.pc = "loop" /\ sim'.pc = "loop" /\ sim'.step = sim.step + 1

\* the flag a neuron recorded in the pass being made
NewFlag(n) == Last(n.spike_history) = 1

\* the current the hidden and output weights held before the pass give to
\* hidden neuron h and, before inhibition, to output neuron o
OldWeightHiddenCurrent(h) ==
    SumTo([i \in 0 .. n_input - 1 |->
              IF sim.input_spikes[i][sim.step + 1]
              THEN synapses_ih[i * n_hidden + h].w ELSE 0], n_input)
OldWeightRawCurrent(o) ==
    SumTo([h \in 0 .. n_hidden - 1 |->
              IF NewFlag(hidden_neurons'[h])
              THEN synapses_ho[h * n_output + o].w ELSE 0], n_hidden)
\* the current output neuron o is advanced with: its raw current less the
\* inhibition by the raw currents of the others, plus the teaching signal
OldWeightOutputCurrent(o) ==
    Inhibited(o, [j \in 0 .. n_output - 1 |-> OldWeightRawCurrent(j)])
    + Teaching(o, sim.label, stdp_enabled)

\* C24: in every pass, labelled or not, the hidden neurons are advanced with
\* currents summed from the weights the pass began with, the output neurons
\* with currents summed from the weights the pass began with and the hidden
\* flags of this pass, and only then the synapses change: each input->hidden
\* synapse by one update_traces call with the input flag and the hidden flag
\* of this pass, each hidden->output synapse by the plasticity of lines
\* 339-364 (update_traces, reward or punishment) with the hidden flag and the
\* output flag of this pass.
C24_NeuronsBeforePlasticity ==
    [][PassTaken =>
          /\ \A h \in 0 .. n_hidden - 1 :
                hidden_neurons'[h]
                    = NeuronStep(hidden_neurons[h], DT,
                                 OldWeightHiddenCurrent(h), obs'.hid_tested[h])
          /\ \A o \in 0 .. n_output - 1 :
                /\ obs'.raw[o] = OldWeightRawCurrent(o)
                /\ output_neurons'[o]
                      = NeuronStep(output_neurons[o], DT,
                                   OldWeightOutputCurrent(o), obs'.out_tested[o])
          /\ stdp_enabled =>
                /\ \A k \in DOMAIN synapses_ih :
                      synapses_ih'[k]
                          = update_traces(synapses_ih[k], DT,
                                          sim.input_spikes[k \div n_hidden][sim.step + 1],
                                          NewFlag(hidden_neurons'[k % n_hidden]))
                /\ \A k \in DOMAIN synapses_ho :
                      synapses_ho'[k]
                          = HOPlasticity(synapses_ho[k], TRUE, sim.label,
                                         k % n_output,
                                         NewFlag(hidden_neurons'[k \div n_output]),
                                         NewFlag(output_neurons'[k % n_output])).s
          /\ ~stdp_enabled => UNCHANGED <<synapses_ih, synapses_ho>>]_vars

\* C24 witness: after a labelled pass with plasticity in which a hidden
\* neuron that had not spiked in the pass before spiked, the input->hidden
\* synapse into it received the call (true, true), and a hidden->output
\* weight differs from the weight the pass began with, which the raw current
\* was summed from.
C24_Witness ==
    /\ InLoopAfterStep /\ sim.step > 1
    /\ obs.enabled /\ obs.label.given
    /\ \E k \in DOMAIN synapses_ih :
          /\ SpikedLast(k % n_hidden)
          /\ hidden_neurons[k % n_hidden].spike_history[sim.step - 1] = 0
          /\ obs.ih_calls[k] = <<<<TRUE, TRUE>>>>
    /\ \E k \in DOMAIN synapses_ho :
          /\ synapses_ho[k].w # obs.w_ho[k]
          /\ obs.raw[k % n_output] > 0
=============================================================================
